---- MODULE Spec2Model ----
(***************************************************************************)
(* A state-machine model of the group-selection layer of group_testing:    *)
(*   group_selectors/mutual_information.py  (collapse_particles,           *)
(*                                           MaxMutualInformation)         *)
(*   group_selectors/split.py               (SplitSelector, SplitPositive, *)
(*                                           TwoDDorfmanPostSelector)      *)
(*   samplers/dorfman_decoder.py            (DorfmanDecoder)               *)
(*                                                                         *)
(* A group (a boolean vector over the patients) is the set of the patient  *)
(* indices 0..num_patients-1 that are True in it; a batch of groups (a 2-D *)
(* boolean table) is the sequence of its rows.                             *)
(***************************************************************************)
EXTENDS Integers, Sequences, FiniteSets, TLC

\* ------------------------------------------------------------------ bounds
\* forward_iterations and backward_iterations are drawn from 0..MaxIter
MaxIter == 2
\* state.num_patients is drawn from 1..NumPatients
NumPatients == 4
\* state.max_group_size is drawn from 1..MaxGroupSize
MaxGroupSize == 3
\* state.extra_tests_needed is drawn from 0..MaxTests
MaxTests == 1
\* the objective of a sub-step is drawn from 0..MaxObj, in units of 1e-6
MaxObj == 2
\* collapse_particles is given at most MaxParticles particles, over
\* 1..CollapsePatients patients
MaxParticles == 3
CollapsePatients == 2
\* an explicit split_factor is drawn from 1..MaxSplitFactor
MaxSplitFactor == 3
\* state.prior_infection_rate is a ratio num/den with 1 <= num <= den <= MaxRateDen
MaxRateDen == 4
\* tests are run while past_groups holds at most MaxPastGroups groups
MaxPastGroups == 6
\* at most MaxCalls selector calls are made on one session
MaxCalls == 2
\* the history of a two-stage (8 rows + 12 columns) session holds at most
\* MaxPositives positive results
MaxPositives == 3
\* the decoder is given a history of at most MaxHistory tests
MaxHistory == 2
\* InformativeDorfman is run on 1..IDPatients patients, with probabilities
\* that are multiples of 1 / WeightDen
IDPatients == 3
WeightDen == 4

\* --------------------------------------------------------------- variables
VARIABLES
  \* the session state the selectors and the decoder read and write
  num_patients, max_group_size, extra_tests_needed, prior_infection_rate,
  prior_sensitivity, prior_specificity,
  particle_weights, particles,
  past_groups, past_test_results, to_clear_positives,
  groups_to_test, all_cleared,
  \* history: the calls made on the session state, in order, and the number
  \* of selector calls completed
  api_log, calls,
  \* the selector object and the position of the running call
  selector, ctor_args, pc,
  \* collapse_particles: the random direction drawn from rng, and the
  \* population it returns
  alpha, collapsed_weights, collapsed_particles,
  \* locals of MaxMutualInformation.get_groups
  chosen_groups, added_groups_counter,
  previous_groups_prob_partstates, previous_groups_cumcond_entropy,
  proposed_group, proposed_group_size, obj_old, forward_it, backward_it,
  obj_new,
  cur_group, cur_groups_recorded_prob_partstates, cur_groups_cumcond_entropy,
  \* history: for each committed group, the outer-loop round whose
  \* construction loop assigned cur_group last (0: never assigned)
  cur_group_round, chosen_rounds,
  \* history: the largest objective of the sub-steps accepted so far for the
  \* group under construction, and the proposal of the last of them
  best_accepted, accepted_group,
  \* DorfmanDecoder: the fields produce_sample sets on the sampler
  sampler_particle_weights, sampler_particles,
  \* locals of InformativeDorfman.__call__
  n_p, n_r, all_new_groups

configVars == <<num_patients, max_group_size, extra_tests_needed,
                prior_infection_rate, prior_sensitivity, prior_specificity,
                particle_weights, particles>>
historyVars == <<past_groups, past_test_results, to_clear_positives>>
queueVars == <<groups_to_test, all_cleared, api_log>>
stateVars == <<configVars, historyVars, queueVars, calls>>
ctlVars == <<selector, ctor_args, pc>>
collapseVars == <<alpha, collapsed_weights, collapsed_particles>>
miOuterVars == <<chosen_groups, added_groups_counter,
                 previous_groups_prob_partstates,
                 previous_groups_cumcond_entropy, chosen_rounds>>
miInnerVars == <<proposed_group, proposed_group_size, obj_old, forward_it,
                 backward_it, obj_new, best_accepted, accepted_group>>
miCurVars == <<cur_group, cur_groups_recorded_prob_partstates,
               cur_groups_cumcond_entropy, cur_group_round>>
miVars == <<miOuterVars, miInnerVars, miCurVars>>
samplerVars == <<sampler_particle_weights, sampler_particles>>
idVars == <<n_p, n_r, all_new_groups>>
vars == <<stateVars, ctlVars, collapseVars, miVars, samplerVars, idVars>>
\* what MaxMutualInformation.get_groups never writes after its first lines
miFrame == <<stateVars, collapseVars, samplerVars, idVars>>

\* ----------------------------------------------------------------- helpers
Min(a, b) == IF a <= b THEN a ELSE b
Max(a, b) == IF a >= b THEN a ELSE b

\* A Python local that no assignment has bound yet, and a bound one.
Unbound == <<>>
Bound(v) == <<v>>
ValueOf(x) == x[1]

Patients == 0 .. (num_patients - 1)

\* No selector object exists (before construction, or construction raised).
NoSelector == [kind |-> "none"]

\* A session on which nothing was tested or queued yet.
FreshSession ==
  /\ prior_infection_rate = <<[num |-> 1, den |-> 1]>>
  /\ past_groups = <<>>
  /\ past_test_results = <<>>
  /\ to_clear_positives = {}
  /\ groups_to_test = <<>>
  /\ all_cleared = FALSE
  /\ api_log = <<>>
  /\ calls = 0

\* collapse_particles and the decoder have not run.
CollapseIdle ==
  /\ collapsed_weights = <<>>
  /\ collapsed_particles = <<>>

SamplerIdle ==
  /\ sampler_particle_weights = <<>>
  /\ sampler_particles = <<>>

\* Locals of InformativeDorfman.__call__ before the call binds them.
IDIdle ==
  /\ n_p = 0
  /\ n_r = 0
  /\ all_new_groups = <<>>

\* Probabilities (particle weights, marginals, cut-offs, sensitivities and
\* specificities) are counted in units of 1 / WeightDen.
One == WeightDen

\* A test that never errs, whatever the size of the group: scalar
\* prior_sensitivity = prior_specificity = 1.
NoiseFreeTests ==
  /\ prior_sensitivity = <<One>>
  /\ prior_specificity = <<One>>

\* ======================================================= collapse_particles
\* The projection of one particle on the direction a: np.sum(particle * a).
RECURSIVE SumOver(_, _)
SumOver(a, set) ==
  IF set = {} THEN 0
  ELSE LET p == CHOOSE q \in set : TRUE
       IN  a[p] + SumOver(a, set \ {p})

\* The array a function over 1..n stands for, as a tuple.
Array(f, n) == SubSeq(f, 1, n)

RandomProjection(a, parts) ==
  Array([i \in 1 .. Len(parts) |-> SumOver(a, parts[i])], Len(parts))

\* np.argsort (stable): the indices of keys in ascending order of key, equal
\* keys in index order.
ArgSort(keys) ==
  LET n == Len(keys)
      Rank(i) == Cardinality({j \in 1 .. n :
                    keys[j] < keys[i] \/ (keys[j] = keys[i] /\ j < i)}) + 1
  IN  Array([k \in 1 .. n |-> CHOOSE i \in 1 .. n : Rank(i) = k], n)

\* seq[indices]
Take(seq, indices) ==
  Array([k \in 1 .. Len(indices) |-> seq[indices[k]]], Len(indices))

RECURSIVE SeqSum(_)
SeqSum(seq) == IF seq = <<>> THEN 0 ELSE seq[1] + SeqSum(Tail(seq))

\* np.cumsum, np.flip, np.diff
CumSum(seq) ==
  Array([k \in 1 .. Len(seq) |-> SeqSum(SubSeq(seq, 1, k))], Len(seq))
Flip(seq) == Array([k \in 1 .. Len(seq) |-> seq[Len(seq) + 1 - k]], Len(seq))
Diff(seq) ==
  Array([k \in 1 .. Len(seq) - 1 |-> seq[k + 1] - seq[k]], Len(seq) - 1)

\* np.where(bools): the positions that hold TRUE, ascending (positions are
\* counted from 1 here, from 0 in the source).
Where(bools) ==
  SelectSeq(Array([k \in 1 .. Len(bools) |-> k], Len(bools)),
            LAMBDA k : bools[k])

\* Mutant of IndicesSingles: n_particles - 1 taken for a position counted
\* from 1, so that the position before the last is appended.
IndicesSinglesOffByOne(projection) ==
  LET d == Flip(Diff(Flip(projection)))
  IN  Append(Where(Array([k \in 1 .. Len(d) |-> d[k] # 0], Len(d))),
             Len(projection) - 1)

\* `indices_singles`: np.where(np.flip(np.diff(np.flip(projection))) != 0)
\* with n_particles - 1 (here: the last position) appended.
IndicesSingles(projection) ==
  LET d == Flip(Diff(Flip(projection)))
  IN  Append(Where(Array([k \in 1 .. Len(d) |-> d[k] # 0], Len(d))),
             Len(projection))

\* collapse_particles(rng, particle_weights, particles), a the direction
\* drawn from rng.
CollapseParticles(a, weights, parts) ==
  IF Len(parts) < 2
    THEN [particle_weights |-> weights, particles |-> parts]
    ELSE LET indices == ArgSort(RandomProjection(a, parts))
             sorted_particles == Take(parts, indices)
             sorted_weights == Take(weights, indices)
             cumsum_particle_weights == CumSum(sorted_weights)
             random_projection == Take(RandomProjection(a, parts), indices)
             indices_singles == IndicesSingles(random_projection)
             new_weights ==
               <<cumsum_particle_weights[indices_singles[1]]>>
                 \o Diff(Take(cumsum_particle_weights, indices_singles))
         IN  [particle_weights |-> new_weights,
              particles |-> Take(sorted_particles, indices_singles)]

\* ==================================================== MaxMutualInformation
\* `obj_old = -1` and the `1e-6` of the acceptance test, in units of 1e-6.
ObjOldInit == -1000000
Tolerance == 1
\* The objective is a mutual information (whole entropy minus conditional
\* entropy), which is never negative.
ObjValues == 0 .. MaxObj

\* Mutant of RejectsIterations: the comparison made strict, so that equal
\* iteration counts are let through.
RejectsIterationsStrict(f, b) == f < b

\* __init__: `if forward_iterations <= backward_iterations: raise ValueError`
RejectsIterations(f, b) == f <= b

\* MaxMutualInformation(forward_iterations=f, backward_iterations=b)
Construct(f, b) ==
  /\ pc = "new"
  /\ ctor_args' = [forward_iterations |-> f, backward_iterations |-> b]
  /\ IF RejectsIterations(f, b)
       THEN /\ pc' = "ValueError"
            /\ selector' = NoSelector
       ELSE /\ pc' = "constructed"
            /\ selector' = [kind |-> "MaxMutualInformation",
                            forward_iterations |-> f,
                            backward_iterations |-> b]
  /\ UNCHANGED <<stateVars, collapseVars, miVars, samplerVars, idVars>>

\* joint_mi_criterion_mg: the candidate groups of one call. Forward, one
\* candidate per patient outside cur_group (that patient added); backtracking,
\* one per patient inside it (that patient removed). The call returns the
\* candidate of largest objective, which may be any of them.
CandidateGroups(group, backtracking) ==
  IF backtracking
    THEN {group \ {p} : p \in group}
    ELSE {group \cup {p} : p \in Patients \ group}

\* The groups `steps` successive calls of joint_mi_criterion_mg can return,
\* starting from any group of `groups`.
RECURSIVE AfterSteps(_, _, _)
AfterSteps(groups, steps, backtracking) ==
  IF steps = 0 THEN groups
  ELSE AfterSteps(UNION {CandidateGroups(g, backtracking) : g \in groups},
                  steps - 1, backtracking)

\* `iterations = [self.forward_iterations, self.backward_iterations]`: the
\* numbers of additions and removals the body of the inner loop performs.
IterationsForward == selector.forward_iterations
IterationsBackward == selector.backward_iterations

\* The groups one pass of the `for steps, backtrack in zip(...)` loops can
\* leave in proposed_group.
SubStepGroups(group) ==
  AfterSteps(AfterSteps({group}, IterationsForward, FALSE),
             IterationsBackward, TRUE)

\* A forward call on a group that already holds every patient has no
\* candidate: np.argmax of an empty array raises.
SubStepRaises(group) ==
  Cardinality(group) + IterationsForward > num_patients

\* The condition of the inner `while`.
InnerCondition ==
  proposed_group_size + forward_it - backward_it <= max_group_size

\* Mutant of Accepts: the tolerance left out.
AcceptsAnyIncrease(objective) == objective > obj_old

\* `if obj_new > obj_old + 1e-6`
Accepts(objective) == objective > obj_old + Tolerance

\* The correction of backward_it after an accepted sub-step.
CorrectedBackwardIt(size) ==
  Min(Max(backward_it, size + forward_it - max_group_size), forward_it - 1)

\* get_groups up to the first test of the outer loop.
GetGroupsEnter ==
  /\ pc = "constructed"
  /\ pc' = "outer"
  /\ LET collapsed == CollapseParticles(alpha, particle_weights, particles)
     IN  /\ collapsed_weights' = collapsed.particle_weights
         /\ collapsed_particles' = collapsed.particles
  /\ previous_groups_prob_partstates' = <<>>
  /\ previous_groups_cumcond_entropy' = <<>>
  /\ chosen_groups' = <<>>
  /\ added_groups_counter' = 0
  /\ UNCHANGED <<stateVars, alpha, samplerVars, idVars, selector, ctor_args,
                 chosen_rounds, miInnerVars, miCurVars>>

\* `while added_groups_counter < state.extra_tests_needed`, and the
\* initialisation of a new group when it holds.
OuterTest ==
  /\ pc = "outer"
  /\ IF added_groups_counter < extra_tests_needed
       THEN /\ pc' = "inner"
            /\ proposed_group' = {}
            /\ proposed_group_size' = 0
            /\ obj_old' = ObjOldInit
            /\ forward_it' = selector.forward_iterations
            /\ backward_it' = selector.backward_iterations
            /\ best_accepted' = Unbound
            /\ accepted_group' = Unbound
            /\ UNCHANGED obj_new
       ELSE /\ pc' = "returned"
            /\ UNCHANGED miInnerVars
  /\ UNCHANGED <<miFrame, selector, ctor_args, miOuterVars, miCurVars>>

\* One pass of the body of the inner loop: the forward and backward calls,
\* then the acceptance test.
SubStep ==
  /\ pc = "inner"
  /\ InnerCondition
  /\ IF SubStepRaises(proposed_group)
       THEN /\ pc' = "raised"
            /\ UNCHANGED <<miInnerVars, miCurVars>>
       ELSE \E group \in SubStepGroups(proposed_group), objective \in ObjValues :
              /\ proposed_group' = group
              /\ obj_new' = Bound(objective)
              /\ IF Accepts(objective)
                   THEN /\ cur_group' = Bound(group)
                        /\ cur_groups_cumcond_entropy' =
                             Bound(Append(previous_groups_cumcond_entropy, group))
                        /\ cur_groups_recorded_prob_partstates' =
                             Bound(Append(previous_groups_prob_partstates, group))
                        /\ cur_group_round' = added_groups_counter + 1
                        /\ obj_old' = objective
                        /\ best_accepted' =
                             IF best_accepted = Unbound
                               THEN Bound(objective)
                               ELSE Bound(Max(ValueOf(best_accepted), objective))
                        /\ accepted_group' = Bound(group)
                        /\ proposed_group_size' =
                             proposed_group_size + (forward_it - backward_it)
                        /\ backward_it' =
                             CorrectedBackwardIt(proposed_group_size')
                        /\ UNCHANGED <<pc, forward_it>>
                   ELSE /\ pc' = "commit"
                        /\ UNCHANGED <<proposed_group_size, obj_old,
                                       forward_it, backward_it, best_accepted,
                                       accepted_group, miCurVars>>
  /\ UNCHANGED <<miFrame, selector, ctor_args, miOuterVars>>

\* The inner `while` ends because its condition fails.
InnerExit ==
  /\ pc = "inner"
  /\ ~InnerCondition
  /\ pc' = "commit"
  /\ UNCHANGED <<miFrame, selector, ctor_args, miVars>>

\* "stop adding, form next group": reading a local that was never bound
\* raises UnboundLocalError. (obj_new is not read again before the next
\* sub-step assigns it: the model forgets its value here.)
Commit ==
  /\ pc = "commit"
  /\ obj_new' = Unbound
  /\ IF cur_groups_recorded_prob_partstates = Unbound
       THEN /\ pc' = "raised"
            /\ UNCHANGED miOuterVars
       ELSE /\ pc' = "outer"
            /\ previous_groups_prob_partstates' =
                 ValueOf(cur_groups_recorded_prob_partstates)
            /\ previous_groups_cumcond_entropy' =
                 ValueOf(cur_groups_cumcond_entropy)
            /\ chosen_groups' = Append(chosen_groups, ValueOf(cur_group))
            /\ chosen_rounds' = Append(chosen_rounds, cur_group_round)
            /\ added_groups_counter' = added_groups_counter + 1
  /\ UNCHANGED <<miFrame, selector, ctor_args, proposed_group,
                 proposed_group_size, obj_old, forward_it, backward_it,
                 best_accepted, accepted_group, miCurVars>>

\* Locals of get_groups before the call binds them.
MIIdle ==
  /\ chosen_groups = <<>>
  /\ added_groups_counter = 0
  /\ previous_groups_prob_partstates = <<>>
  /\ previous_groups_cumcond_entropy = <<>>
  /\ chosen_rounds = <<>>
  /\ proposed_group = {}
  /\ proposed_group_size = 0
  /\ obj_old = ObjOldInit
  /\ forward_it = 0
  /\ backward_it = 0
  /\ obj_new = Unbound
  /\ best_accepted = Unbound
  /\ accepted_group = Unbound
  /\ cur_group = Unbound
  /\ cur_groups_recorded_prob_partstates = Unbound
  /\ cur_groups_cumcond_entropy = Unbound
  /\ cur_group_round = 0

MIInit ==
  /\ num_patients \in 1 .. NumPatients
  /\ max_group_size \in 1 .. MaxGroupSize
  /\ extra_tests_needed \in 0 .. MaxTests
  /\ FreshSession
  /\ NoiseFreeTests
  /\ particle_weights = <<1>>
  /\ particles = <<{}>>
  /\ alpha = [p \in Patients |-> 0]
  /\ CollapseIdle
  /\ SamplerIdle
  /\ IDIdle
  /\ selector = NoSelector
  /\ ctor_args = NoSelector
  /\ pc = "new"
  /\ MIIdle

MINext ==
  \/ \E f \in 0 .. MaxIter, b \in 0 .. MaxIter : Construct(f, b)
  \/ GetGroupsEnter
  \/ OuterTest
  \/ SubStep
  \/ InnerExit
  \/ Commit

SpecMI == MIInit /\ [][MINext]_vars

\* ------------------------------------------------- claims, MaxMutualInformation
\* C1 (as claimed): every group get_groups has committed holds at most
\* state.max_group_size patients, counted on the group itself.
C1_CommittedGroupWithinMaxGroupSize ==
  \A i \in 1 .. Len(chosen_groups) :
    Cardinality(chosen_groups[i]) <= max_group_size

\* C2 (as claimed): get_groups never raises, and when it returns it returns
\* exactly extra_tests_needed groups, the i-th of them assigned to cur_group
\* by the construction loop of round i.
C2_ReturnsOneFreshGroupPerTest ==
  /\ pc # "raised"
  /\ pc = "returned" =>
       /\ Len(chosen_groups) = extra_tests_needed
       /\ \A i \in 1 .. Len(chosen_groups) : chosen_rounds[i] = i

\* C3: construction raises ValueError exactly when forward_iterations <=
\* backward_iterations, and then no selector holding iteration counts exists;
\* otherwise the selector stores both arguments unchanged, and keeps them.
C3_ConstructorRejectsExactlyNoProgress ==
  pc # "new" =>
    /\ (pc = "ValueError") <=>
         (ctor_args.forward_iterations <= ctor_args.backward_iterations)
    /\ pc = "ValueError" => selector = NoSelector
    /\ pc # "ValueError" =>
         /\ selector.forward_iterations = ctor_args.forward_iterations
         /\ selector.backward_iterations = ctor_args.backward_iterations

\* C3 witness: construction with equal iteration counts (the spec's example
\* forward_iterations = 1, backward_iterations = 1) has raised.
C3_Witness_EqualCountsRejected ==
  /\ pc = "ValueError"
  /\ ctor_args.forward_iterations = 1
  /\ ctor_args.backward_iterations = 1

\* C14 (as claimed): a sub-step changes the proposed group by
\* forward_iterations additions and, after them, as many removals as the
\* backward count in force (backward_it, which starts at backward_iterations
\* and is corrected after an accepted sub-step), so that after every accepted
\* sub-step proposed_group_size is the number of patients in proposed_group.
C14_TrackedSizeIsGroupSize ==
  [][(pc = "inner" /\ InnerCondition /\ pc' # "raised") =>
       /\ Cardinality(proposed_group') =
            Cardinality(proposed_group) + selector.forward_iterations
              - backward_it
       /\ pc' = "inner" =>
            proposed_group_size' = Cardinality(proposed_group')]_vars

\* The largest of the objectives accepted so far for the group under
\* construction, and -1 when none was.
BestAccepted ==
  IF best_accepted = Unbound THEN -1000000 ELSE ValueOf(best_accepted)

\* C15: a sub-step is accepted exactly when its objective exceeds the best
\* objective accepted so far for this group (-1 before the first) by more
\* than 1e-6; an accepted sub-step keeps the loop going, the first one that
\* is not accepted ends it; and the group committed, with the table of outcome
\* probabilities and the cumulative conditional entropy that become the
\* baseline of the next group, is the proposal of the last accepted sub-step
\* of this group, not the proposal that was rejected.
C15_CommitsLastAcceptedProposal ==
  [][/\ (pc = "inner" /\ InnerCondition /\ pc' # "raised") =>
          LET accepted == ValueOf(obj_new') > BestAccepted + 1
          IN  /\ accepted <=> (pc' = "inner")
              /\ ~accepted <=> (pc' = "commit")
              /\ accepted => /\ cur_group' = Bound(proposed_group')
                             /\ obj_old' = ValueOf(obj_new')
              /\ ~accepted => /\ cur_group' = cur_group
                              /\ obj_old' = obj_old
                              /\ cur_group' # Bound(proposed_group')
     /\ (pc = "commit" /\ pc' = "outer") =>
          /\ accepted_group # Unbound
          /\ chosen_groups' = Append(chosen_groups, ValueOf(accepted_group))
          /\ previous_groups_prob_partstates' =
               Append(previous_groups_prob_partstates, ValueOf(accepted_group))
          /\ previous_groups_cumcond_entropy' =
               Append(previous_groups_cumcond_entropy, ValueOf(accepted_group))]_vars

\* C15 witness: a group of two patients was committed after a sub-step that
\* proposed a third patient and was rejected (the best accepted objective
\* being the largest the model draws): it is the last accepted proposal, not
\* the rejected one.
C15_Witness_RejectedProposalNotCommitted ==
  /\ pc = "outer"
  /\ Len(chosen_groups) >= 1
  /\ obj_old = 2
  /\ Cardinality(ValueOf(accepted_group)) = 2
  /\ Cardinality(proposed_group) = 3
  /\ chosen_groups[Len(chosen_groups)] = ValueOf(accepted_group)
  /\ chosen_groups[Len(chosen_groups)] # proposed_group


\* The coordinates of the random direction the model draws: small integers,
\* so that distinct particles can project on the same key.
AlphaValues == {-1, 0, 1}

\* The weight of input particle i, in units of the smallest weight. The code
\* never branches on a weight; powers of two make every sum of weights name
\* the set of particles it was taken over.
UnitWeight(i) == 2 ^ (i - 1)

SeqsUpTo(set, n) == UNION {[1 .. k -> set] : k \in 0 .. n}

CollapseInit ==
  /\ num_patients \in 1 .. CollapsePatients
  /\ max_group_size = 1
  /\ extra_tests_needed = 0
  /\ FreshSession
  /\ NoiseFreeTests
  /\ particles \in SeqsUpTo(SUBSET Patients, MaxParticles)
  /\ particle_weights = [i \in 1 .. Len(particles) |-> UnitWeight(i)]
  /\ alpha \in [Patients -> AlphaValues]
  /\ CollapseIdle
  /\ SamplerIdle
  /\ IDIdle
  /\ selector = NoSelector
  /\ ctor_args = NoSelector
  /\ pc = "new"
  /\ MIIdle

\* particle_weights, particles = collapse_particles(rng, state.particle_weights,
\*                                                  state.particles)
Collapse ==
  /\ pc = "new"
  /\ pc' = "collapsed"
  /\ LET collapsed == CollapseParticles(alpha, particle_weights, particles)
     IN  /\ collapsed_weights' = collapsed.particle_weights
         /\ collapsed_particles' = collapsed.particles
  /\ UNCHANGED <<stateVars, selector, ctor_args, alpha, miVars, samplerVars, idVars>>

CollapseNext == Collapse

SpecCollapse == CollapseInit /\ [][CollapseNext]_vars

\* --------------------------------------------------- claims, collapse_particles
\* The key of input particle i, and the sum of the input weights under key.
KeyOf(i) == SumOver(alpha, particles[i])
KeySet == {KeyOf(i) : i \in 1 .. Len(particles)}
RECURSIVE WeightUnder(_, _)
WeightUnder(key, i) ==
  IF i = 0 THEN 0
  ELSE WeightUnder(key, i - 1)
         + (IF KeyOf(i) = key THEN particle_weights[i] ELSE 0)

\* C10: with fewer than 2 particles the population comes back unchanged;
\* otherwise there is exactly one output particle per distinct key, in
\* ascending key order, each a particle of its key's run and weighted by the
\* sum of that run's input weights, so the total weight is kept, the count
\* does not grow and, where distinct particles have distinct keys, no two
\* output particles are equal.
C10_CollapseMergesRunsOfEqualKeys ==
  pc = "collapsed" =>
    IF Len(particles) < 2
      THEN /\ collapsed_weights = particle_weights
           /\ collapsed_particles = particles
      ELSE /\ Len(collapsed_particles) = Cardinality(KeySet)
           /\ Len(collapsed_weights) = Cardinality(KeySet)
           /\ \A k \in 1 .. Len(collapsed_particles) :
                LET key == SumOver(alpha, collapsed_particles[k])
                IN  /\ Cardinality({x \in KeySet : x < key}) = k - 1
                    /\ \E i \in 1 .. Len(particles) :
                         particles[i] = collapsed_particles[k]
                    /\ collapsed_weights[k] = WeightUnder(key, Len(particles))
           /\ SeqSum(collapsed_weights) = SeqSum(particle_weights)
           /\ Len(collapsed_particles) <= Len(particles)
           /\ (\A i, j \in 1 .. Len(particles) :
                 particles[i] # particles[j] => KeyOf(i) # KeyOf(j))
                => \A k, l \in 1 .. Len(collapsed_particles) :
                     k # l => collapsed_particles[k] # collapsed_particles[l]

\* C10 witness: a population of three particles, two of them equal, has been
\* collapsed to two particles.
C10_Witness_DuplicateMerged ==
  /\ pc = "collapsed"
  /\ Len(particles) = 3
  /\ \E i, j \in 1 .. 3 : i # j /\ particles[i] = particles[j]
  /\ Len(collapsed_particles) = 2

\* ============================================== the session state's operations
\* Python's None, and a value that is not None.
None == <<>>
Some(v) == <<v>>

\* The entries of api_log: a call on the session state, with the selector
\* making it.
AddGroupsToTestCall(groups, results_need_clearing) ==
  [op |-> "add_groups_to_test",
   by |-> selector,
   groups |-> groups,
   results_need_clearing |-> results_need_clearing]
UpdateToClearPositivesCall ==
  [op |-> "update_to_clear_positives", by |-> selector]

\* The queue of groups to test once the groups have joined it.
Queued(groups, results_need_clearing) ==
  groups_to_test \o
    [i \in 1 .. Len(groups) |->
       [group |-> groups[i], results_need_clearing |-> results_need_clearing]]

\* state.add_groups_to_test(groups, results_need_clearing): the groups join
\* the queue of groups to test; the call is logged.
AddGroupsToTest(groups, results_need_clearing) ==
  /\ groups_to_test' = Queued(groups, results_need_clearing)
  /\ api_log' =
       Append(api_log, AddGroupsToTestCall(groups, results_need_clearing))

\* The simulator tests the queued groups: they join past_groups with their
\* results (positive for the queue positions in `positives`), and those that
\* are positive and need clearing become pending.
RunTests(positives) ==
  /\ past_groups' = past_groups \o
       [i \in 1 .. Len(groups_to_test) |-> groups_to_test[i].group]
  /\ past_test_results' = past_test_results \o
       [i \in 1 .. Len(groups_to_test) |-> i \in positives]
  /\ to_clear_positives' = to_clear_positives \cup
       {Len(past_groups) + i : i \in
          {j \in positives : groups_to_test[j].results_need_clearing}}
  /\ groups_to_test' = <<>>
  /\ UNCHANGED <<configVars, all_cleared, api_log, calls, ctlVars,
                 collapseVars, miVars, samplerVars, idVars>>

ProcessTests ==
  /\ pc = "constructed"
  /\ groups_to_test # <<>>
  /\ Len(past_groups) + Len(groups_to_test) <= MaxPastGroups
  /\ \E positives \in SUBSET (1 .. Len(groups_to_test)) : RunTests(positives)

\* =================================================== SplitSelector, SplitPositive
\* The members of a group in ascending order: np.where(group), and
\* np.arange(num_patients) for the group of all patients.
Indices(group) ==
  Array([k \in 1 .. Cardinality(group) |->
           CHOOSE x \in group : Cardinality({y \in group : y < x}) = k - 1],
        Cardinality(group))

\* The group whose True entries are the given indices.
GroupOf(indices) == {indices[k] : k \in 1 .. Len(indices)}

\* -(-a // b)
CeilDiv(a, b) == 0 - ((0 - a) \div b)

\* np.ceil(1 / np.sqrt(rate)) for rate = num/den, in exact arithmetic: the
\* least k with k * k * num >= den (floating-point rounding of the square
\* root and of the quotient is not modelled).
CeilInvSqrt(rate) ==
  CHOOSE k \in 1 .. rate.den :
    /\ k * k * rate.num >= rate.den
    /\ \A j \in 1 .. k - 1 : j * j * rate.num < rate.den

\* onp.array_split(ary, sections): the first len(ary) % sections parts hold
\* len(ary) // sections + 1 elements, the others len(ary) // sections.
DivPoint(total, sections, i) ==
  i * (total \div sections) + Min(i, total % sections)
ArraySplit(ary, sections) ==
  LET total == Len(ary)
  IN  Array([i \in 1 .. sections |->
               SubSeq(ary, DivPoint(total, sections, i - 1) + 1,
                      DivPoint(total, sections, i))],
            sections)

\* One group per part of a split.
GroupsOf(parts) == Array([i \in 1 .. Len(parts) |-> GroupOf(parts[i])], Len(parts))

\* Mutant of MinSplits: floor division for the ceiling.
MinSplitsFloor == num_patients \div max_group_size

\* `min_splits = -(-state.num_patients // state.max_group_size)`
MinSplits == CeilDiv(num_patients, max_group_size)

\* SplitSelector.get_groups raises for a vector of infection rates.
SplitSelectorRaises ==
  selector.split_factor = None /\ Len(prior_infection_rate) > 1

\* The split count SplitSelector.get_groups uses.
SplitSelectorFactor ==
  IF selector.split_factor = None
    THEN LET group_size ==
               Min(1 + CeilInvSqrt(prior_infection_rate[1]), max_group_size)
         IN  CeilDiv(num_patients, group_size)
    ELSE Max(ValueOf(selector.split_factor), MinSplits)

\* SplitSelector.get_groups
SplitSelectorGroups ==
  GroupsOf(ArraySplit(Indices(Patients), SplitSelectorFactor))

\* SplitSelector(split_factor), SplitPositive(split_factor)
ConstructSplitSelector(split_factor) ==
  /\ pc = "new"
  /\ pc' = "constructed"
  /\ selector' = [kind |-> "SplitSelector", split_factor |-> split_factor]
  /\ ctor_args' = [split_factor |-> split_factor]
  /\ UNCHANGED <<stateVars, collapseVars, miVars, samplerVars, idVars>>

ConstructSplitPositive(split_factor) ==
  /\ pc \in {"new", "constructed"}
  /\ selector.kind # "SplitPositive"
  /\ pc' = "constructed"
  /\ selector' = [kind |-> "SplitPositive", split_factor |-> split_factor]
  /\ ctor_args' = [split_factor |-> split_factor]
  /\ UNCHANGED <<stateVars, collapseVars, miVars, samplerVars, idVars>>

\* SplitSelector.__call__
SplitSelectorCall ==
  /\ pc = "constructed"
  /\ selector.kind = "SplitSelector"
  /\ calls = 0
  /\ IF SplitSelectorRaises
       THEN /\ pc' = "ValueError"
            /\ UNCHANGED <<groups_to_test, api_log, calls>>
       ELSE /\ AddGroupsToTest(SplitSelectorGroups, TRUE)
            /\ calls' = calls + 1
            /\ UNCHANGED pc
  /\ UNCHANGED <<configVars, historyVars, all_cleared, selector, ctor_args,
                 collapseVars, miVars, samplerVars, idVars>>

\* SplitPositive._split_groups: the sub-groups of groups i.. appended to
\* new_groups. newg is bound only in the branch of a group with more than one
\* member, and appended for every group.
RECURSIVE SplitGroupsFrom(_, _, _, _)
SplitGroupsFrom(groups, i, newg, new_groups) ==
  IF i > Len(groups) THEN [raises |-> FALSE, groups |-> new_groups]
  ELSE LET group_i == groups[i]
           indices == Indices(group_i)
           use_split_factor ==
             IF selector.split_factor = None THEN Len(indices)
             ELSE ValueOf(selector.split_factor)
           newg_i ==
             IF Cardinality(group_i) > 1
               THEN Bound(GroupsOf(ArraySplit(indices, use_split_factor)))
               ELSE newg
       IN  IF newg_i = Unbound
             THEN [raises |-> TRUE, groups |-> new_groups]
             ELSE SplitGroupsFrom(groups, i + 1, newg_i,
                                  new_groups \o ValueOf(newg_i))

SplitGroups(groups) == SplitGroupsFrom(groups, 1, Unbound, <<>>)

\* Mutant of ToSplit: the pending groups of one member are kept.
ToSplitKeepingSingletons ==
  LET pending == Take(past_groups, Indices(to_clear_positives))
  IN  SelectSeq(pending, LAMBDA g : Cardinality(g) >= 1)

\* `to_split` of SplitPositive.get_groups: the pending past groups, in
\* past_groups order, that have more than one member.
ToSplit ==
  LET pending == Take(past_groups, Indices(to_clear_positives))
  IN  SelectSeq(pending, LAMBDA g : Cardinality(g) > 1)

\* SplitPositive.get_groups: None, or the sub-groups.
SplitPositiveGroups ==
  IF Len(past_groups) > 0 /\ to_clear_positives # {} /\ Len(ToSplit) > 0
    THEN Some(SplitGroups(ToSplit))
    ELSE None

\* state.update_to_clear_positives(): the pending groups are taken care of.
UpdateToClearPositives ==
  /\ to_clear_positives' = {}

\* state.add_groups_to_test(groups, results_need_clearing) followed by
\* state.update_to_clear_positives(), both logged, in that order.
AddGroupsToTestThenUpdate(groups, results_need_clearing) ==
  /\ groups_to_test' = Queued(groups, results_need_clearing)
  /\ UpdateToClearPositives
  /\ api_log' = api_log \o
       <<AddGroupsToTestCall(groups, results_need_clearing),
         UpdateToClearPositivesCall>>

\* SplitPositive.__call__
SplitPositiveCall ==
  /\ pc = "constructed"
  /\ selector.kind = "SplitPositive"
  /\ calls < MaxCalls
  /\ calls' = calls + 1
  /\ LET new_groups == SplitPositiveGroups
     IN  IF new_groups # None
           THEN IF ValueOf(new_groups).raises
                  THEN /\ pc' = "raised"
                       /\ UNCHANGED <<groups_to_test, api_log,
                                      to_clear_positives, all_cleared>>
                  ELSE /\ AddGroupsToTestThenUpdate(ValueOf(new_groups).groups,
                                                    TRUE)
                       /\ UNCHANGED <<pc, all_cleared>>
           ELSE /\ all_cleared' = TRUE
                /\ UNCHANGED <<pc, groups_to_test, api_log, to_clear_positives>>
  /\ UNCHANGED <<configVars, past_groups, past_test_results, selector,
                 ctor_args, collapseVars, miVars, samplerVars, idVars>>

\* The infection rates the model draws.
Rates ==
  {[num |-> r[1], den |-> r[2]] :
     r \in {x \in (1 .. MaxRateDen) \X (1 .. MaxRateDen) : x[1] <= x[2]}}
SplitFactors == {None} \cup {Some(k) : k \in 1 .. MaxSplitFactor}

SplitInit ==
  /\ num_patients \in 1 .. NumPatients
  /\ max_group_size \in 1 .. MaxGroupSize
  /\ extra_tests_needed = 0
  /\ prior_infection_rate \in
       {<<r>> : r \in Rates} \cup {<<r, r>> : r \in Rates}
  /\ NoiseFreeTests
  /\ particle_weights = <<1>>
  /\ particles = <<{}>>
  /\ past_groups = <<>>
  /\ past_test_results = <<>>
  /\ to_clear_positives = {}
  /\ groups_to_test = <<>>
  /\ all_cleared = FALSE
  /\ api_log = <<>>
  /\ calls = 0
  /\ alpha = [p \in Patients |-> 0]
  /\ CollapseIdle
  /\ SamplerIdle
  /\ IDIdle
  /\ selector = NoSelector
  /\ ctor_args = NoSelector
  /\ pc = "new"
  /\ MIIdle

SplitNext ==
  \/ \E split_factor \in SplitFactors : ConstructSplitSelector(split_factor)
  \/ \E split_factor \in SplitFactors : ConstructSplitPositive(split_factor)
  \/ SplitSelectorCall
  \/ SplitPositiveCall
  \/ ProcessTests

SpecSplit == SplitInit /\ [][SplitNext]_vars

\* ------------------------------------------ claims, SplitSelector and SplitPositive
\* The add_groups_to_test calls made so far.
AddCalls == {i \in 1 .. Len(api_log) : api_log[i].op = "add_groups_to_test"}

\* C4 (as claimed): every group SplitSelector or SplitPositive has passed to
\* state.add_groups_to_test holds at least one patient.
C4_QueuedSplitGroupsNonEmpty ==
  \A i \in AddCalls :
    api_log[i].by.kind \in {"SplitSelector", "SplitPositive"} =>
      \A k \in 1 .. Len(api_log[i].groups) : api_log[i].groups[k] # {}

\* C5: the groups SplitSelector queues for an explicit split_factor are
\* max(split_factor, ceil(num_patients / max_group_size)) contiguous index
\* ranges, every patient is in exactly one of them, and none has more than
\* max_group_size members.
C5_ExplicitSplitIsBoundedPartition ==
  \A i \in AddCalls :
    (api_log[i].by.kind = "SplitSelector" /\ api_log[i].by.split_factor # None)
    =>
    LET groups == api_log[i].groups
        split_factor == api_log[i].by.split_factor[1]
        least == CHOOSE m \in 1 .. num_patients :
                   /\ m * max_group_size >= num_patients
                   /\ \A j \in 1 .. m - 1 : j * max_group_size < num_patients
    IN  /\ Len(groups) = (IF split_factor >= least THEN split_factor ELSE least)
        /\ \A k \in 1 .. Len(groups) :
             /\ \A x, y \in groups[k] : \A z \in x .. y : z \in groups[k]
             /\ Cardinality(groups[k]) <= max_group_size
        /\ \A p \in Patients :
             Cardinality({k \in 1 .. Len(groups) : p \in groups[k]}) = 1
        /\ \A k \in 1 .. Len(groups) : groups[k] \subseteq Patients

\* C5 witness: SplitSelector has queued its groups for an explicit
\* split_factor that had to be raised, and a group has max_group_size >= 2
\* members.
C5_Witness_SplitFactorRaised ==
  \E i \in AddCalls :
    /\ api_log[i].by.kind = "SplitSelector"
    /\ api_log[i].by.split_factor # None
    /\ Len(api_log[i].groups) > api_log[i].by.split_factor[1]
    /\ max_group_size >= 2
    /\ \E k \in 1 .. Len(api_log[i].groups) :
         Cardinality(api_log[i].groups[k]) = max_group_size

\* C13 (as claimed): a SplitPositive call made when there are no past groups,
\* no pending group, or only singleton pending groups sets all_cleared and
\* calls neither add_groups_to_test nor update_to_clear_positives; any other
\* call makes exactly the calls add_groups_to_test(sub-groups,
\* results_need_clearing=True) and update_to_clear_positives(), in that order,
\* and leaves all_cleared as it was.
C13_SplitPositiveCallClearsOrSplits ==
  [][(selector.kind = "SplitPositive" /\ calls' = calls + 1) =>
       IF \/ past_groups = <<>>
          \/ to_clear_positives = {}
          \/ \A i \in to_clear_positives : Cardinality(past_groups[i]) = 1
         THEN /\ all_cleared'
              /\ api_log' = api_log
              /\ groups_to_test' = groups_to_test
              /\ to_clear_positives' = to_clear_positives
         ELSE /\ Len(api_log') = Len(api_log) + 2
              /\ api_log'[Len(api_log) + 1].op = "add_groups_to_test"
              /\ api_log'[Len(api_log) + 1].results_need_clearing
              /\ api_log'[Len(api_log) + 1].groups # <<>>
              /\ api_log'[Len(api_log) + 2].op = "update_to_clear_positives"
              /\ all_cleared' = all_cleared]_vars

\* The pending groups that have more than one member, in past_groups order,
\* the number of sub-groups each is to be split into, and the number of
\* sub-groups that come before those of parent j.
Parents ==
  LET splittable == {i \in to_clear_positives : Cardinality(past_groups[i]) > 1}
  IN  [j \in 1 .. Cardinality(splittable) |->
         past_groups[CHOOSE i \in splittable :
                       Cardinality({m \in splittable : m < i}) = j - 1]]
SubGroupCount(parent) ==
  IF selector.split_factor = None THEN Cardinality(parent)
  ELSE selector.split_factor[1]
RECURSIVE SubGroupsBefore(_, _)
SubGroupsBefore(parents, j) ==
  IF j <= 1 THEN 0
  ELSE SubGroupsBefore(parents, j - 1) + SubGroupCount(parents[j - 1])

\* C16: the batch a SplitPositive call queues holds, for each pending group
\* of more than one member and in their order, split_factor sub-groups (as
\* many singletons as members when split_factor is None) and nothing else,
\* so that pending groups of one member are dropped; the sub-groups of a
\* parent hold members of that parent only, every member in exactly one of
\* them, and are successive blocks of its members in patient order.
C16_SubGroupsAreBlocksOfTheirParent ==
  [][(/\ selector.kind = "SplitPositive"
      /\ calls' = calls + 1
      /\ Len(api_log') > Len(api_log)) =>
       LET batch == api_log'[Len(api_log) + 1].groups
           parents == Parents
           n == Len(parents)
       IN  /\ n >= 1
           /\ Len(batch) = SubGroupsBefore(parents, n + 1)
           /\ \A j \in 1 .. n :
                LET parent == parents[j]
                    first == SubGroupsBefore(parents, j) + 1
                    last == SubGroupsBefore(parents, j + 1)
                IN  /\ \A b \in first .. last : batch[b] \subseteq parent
                    /\ \A p \in parent :
                         Cardinality({b \in first .. last : p \in batch[b]}) = 1
                    /\ \A b, c \in first .. last :
                         b < c => \A x \in batch[b], y \in batch[c] : x < y
                    /\ selector.split_factor = None =>
                         /\ last - first + 1 = Cardinality(parent)
                         /\ \A b \in first .. last : Cardinality(batch[b]) = 1
                    /\ selector.split_factor # None =>
                         last - first + 1 = selector.split_factor[1]]_vars

\* C16 witness: the pairs {0, 1} and {2, 3} were pending and
\* SplitPositive(split_factor=2) has queued their halves, in order.
C16_Witness_TwoParentsSplit ==
  /\ past_groups = <<{0, 1}, {2, 3}>>
  /\ \E i \in AddCalls :
       /\ api_log[i].by.kind = "SplitPositive"
       /\ api_log[i].by.split_factor = Some(2)
       /\ api_log[i].groups = <<{0}, {1}, {2}, {3}>>

\* ======================================================= TwoDDorfmanPostSelector
\* `num_rows = 8`, `num_cols = 12`
num_rows == 8
num_cols == 12

\* The first wave of the two-stage design: the patient in well (r, c) of the
\* num_rows x num_cols plate is patient r * num_cols + c; group r + 1 pools
\* row r and group num_rows + c + 1 pools column c.
PlateGroups ==
  [i \in 1 .. num_rows + num_cols |->
     IF i <= num_rows
       THEN {(i - 1) * num_cols + c : c \in 0 .. num_cols - 1}
       ELSE {r * num_cols + (i - num_rows - 1) : r \in 0 .. num_rows - 1}]

\* The subsets of set that have at most k elements.
RECURSIVE SubsetsUpTo(_, _)
SubsetsUpTo(set, k) ==
  IF k <= 0 THEN {{}}
  ELSE LET smaller == SubsetsUpTo(set, k - 1)
       IN  smaller \cup {t \cup {x} : t \in smaller, x \in set}

\* np.sum(state.past_groups[state.past_test_results, :], axis=0)[p]
ReturnedPositive(p) ==
  Cardinality({i \in 1 .. Len(past_groups) :
                 past_test_results[i] /\ p \in past_groups[i]})

\* np.sum(state.past_test_results[lo:hi]), positions lo+1..hi here
TotalPositive(lo, hi) ==
  Cardinality({i \in (lo + 1) .. hi : past_test_results[i]})

\* Mutant of ReflexToTest: a single positive group is enough in the coherent
\* branch too.
ReflexToTestAnyPositive ==
  {p \in Patients : ReturnedPositive(p) > 0}

\* `reflex_to_test`: the patients to test individually.
ReflexToTest ==
  LET total_positive_first_block == TotalPositive(0, num_rows)
      total_positive_second_block == TotalPositive(num_rows, num_rows + num_cols)
  IN  IF (total_positive_first_block > 0) # (total_positive_second_block > 0)
        THEN {p \in Patients : ReturnedPositive(p) # 0}
        ELSE {p \in Patients : ReturnedPositive(p) > 1}

\* jax.nn.one_hot(reflex_to_test, state.num_patients): one row per index,
\* in ascending order, True at that index only.
OneHot(reflex_to_test) ==
  LET indices == Indices(reflex_to_test)
  IN  Array([k \in 1 .. Len(indices) |-> {indices[k]} \cap Patients],
            Len(indices))

\* TwoDDorfmanPostSelector.__call__
TwoDCall ==
  /\ pc = "constructed"
  /\ selector.kind = "TwoDDorfmanPostSelector"
  /\ calls < MaxCalls
  /\ calls' = calls + 1
  /\ IF Len(past_groups) = num_rows + num_cols
       THEN /\ AddGroupsToTest(OneHot(ReflexToTest), FALSE)
            /\ UNCHANGED all_cleared
       ELSE /\ all_cleared' = TRUE
            /\ UNCHANGED <<groups_to_test, api_log>>
  /\ UNCHANGED <<configVars, historyVars, ctlVars, collapseVars, miVars,
                 samplerVars, idVars>>

\* The simulator tests the queued individual tests.
ProcessReflexTests ==
  /\ pc = "constructed"
  /\ groups_to_test # <<>>
  /\ \E positives \in
          SubsetsUpTo(1 .. Len(groups_to_test),
                      MaxPositives - TotalPositive(0, Len(past_groups))) :
       RunTests(positives)

TwoDInit ==
  /\ num_patients = num_rows * num_cols
  /\ max_group_size = num_cols
  /\ extra_tests_needed = 0
  /\ prior_infection_rate = <<[num |-> 1, den |-> 1]>>
  /\ NoiseFreeTests
  /\ particle_weights = <<1>>
  /\ particles = <<{}>>
  /\ past_groups = PlateGroups
  /\ \E positives \in SubsetsUpTo(1 .. num_rows + num_cols, MaxPositives) :
       past_test_results = [i \in 1 .. num_rows + num_cols |-> i \in positives]
  /\ to_clear_positives = {}
  /\ groups_to_test = <<>>
  /\ all_cleared = FALSE
  /\ api_log = <<>>
  /\ calls = 0
  /\ alpha = [p \in Patients |-> 0]
  /\ CollapseIdle
  /\ SamplerIdle
  /\ IDIdle
  /\ selector = [kind |-> "TwoDDorfmanPostSelector"]
  /\ ctor_args = NoSelector
  /\ pc = "constructed"
  /\ MIIdle

TwoDNext ==
  \/ TwoDCall
  \/ ProcessReflexTests

SpecTwoD == TwoDInit /\ [][TwoDNext]_vars

\* ------------------------------------------------ claims, TwoDDorfmanPostSelector
\* The first wave: the num_rows + num_cols results the first call reads; later
\* tests are appended after them.
FirstWave == 1 .. num_rows + num_cols
FirstWaveAllNegative == \A i \in FirstWave : ~past_test_results[i]

\* C6 (as claimed): once the selector has been called on the 20 past groups
\* with 20 negative results, all_cleared is set and no group was queued.
C6_AllNegativeClearsWithoutQueuing ==
  (calls >= 1 /\ Len(past_groups) = num_rows + num_cols /\ FirstWaveAllNegative)
    => /\ all_cleared
       /\ \A i \in AddCalls : api_log[i].groups = <<>>
       /\ groups_to_test = <<>>

\* C7 (as claimed): every call after the first one sets all_cleared and
\* queues nothing.
C7_LaterCallsClearAndQueueNothing ==
  calls >= 2 =>
    /\ all_cleared
    /\ \A i \in AddCalls : i >= 2 => api_log[i].groups = <<>>

\* C8: the batch the first call queues is one singleton group per patient to
\* retest, each such patient once: with a positive in exactly one of the two
\* blocks, the patients of at least one positive group; otherwise the patients
\* of more than one positive group.
C8_FirstCallQueuesReflexSingletons ==
  calls >= 1 =>
    LET batch == api_log[1].groups
        positive == {i \in FirstWave : past_test_results[i]}
        count(p) == Cardinality({i \in positive : p \in past_groups[i]})
        rows == \E i \in positive : i <= num_rows
        cols == \E i \in positive : i > num_rows
        wanted == IF (rows /\ ~cols) \/ (cols /\ ~rows)
                    THEN {p \in Patients : count(p) >= 1}
                    ELSE {p \in Patients : count(p) > 1}
    IN  /\ api_log[1].op = "add_groups_to_test"
        /\ \A k \in 1 .. Len(batch) : Cardinality(batch[k]) = 1
        /\ UNION {batch[k] : k \in 1 .. Len(batch)} = wanted
        /\ Len(batch) = Cardinality(wanted)

\* C8 witness: after the first call, one row and two columns are positive and
\* the two patients at their crossings, and only they, are queued.
C8_Witness_CrossingsQueued ==
  /\ calls = 1
  /\ Cardinality({i \in FirstWave : past_test_results[i] /\ i <= num_rows}) = 1
  /\ Cardinality({i \in FirstWave : past_test_results[i] /\ i > num_rows}) = 2
  /\ Len(groups_to_test) = 2

\* ================================================================ DorfmanDecoder
\* `ind_tests`: the past tests of exactly one patient that returned positive.
IndTests ==
  {i \in 1 .. Len(past_groups) :
     Cardinality(past_groups[i]) = 1 /\ past_test_results[i]}

\* `marginal`: zeros, plus the column sums of the groups of ind_tests when
\* there is at least one.
Marginal ==
  IF Cardinality(IndTests) # 0
    THEN [p \in Patients |->
            0 + Cardinality({i \in IndTests : p \in past_groups[i]})]
    ELSE [p \in Patients |-> 0]

\* DorfmanDecoder.produce_sample
ProduceSample ==
  /\ pc = "constructed"
  /\ selector.kind = "DorfmanDecoder"
  /\ pc' = "sampled"
  /\ sampler_particle_weights' = <<1>>
  /\ sampler_particles' = <<Marginal>>
  /\ UNCHANGED <<stateVars, selector, ctor_args, collapseVars, miVars, idVars>>

\* The simulator records one more test and its result.
RecordTest(group, result) ==
  /\ pc \in {"constructed", "sampled"}
  /\ Len(past_groups) < MaxHistory
  /\ pc' = "constructed"
  /\ past_groups' = Append(past_groups, group)
  /\ past_test_results' = Append(past_test_results, result)
  /\ UNCHANGED <<configVars, to_clear_positives, queueVars, calls, selector,
                 ctor_args, collapseVars, miVars, samplerVars, idVars>>

DecoderInit ==
  /\ num_patients \in 1 .. NumPatients
  /\ max_group_size = num_patients
  /\ extra_tests_needed = 0
  /\ FreshSession
  /\ NoiseFreeTests
  /\ particle_weights = <<1>>
  /\ particles = <<{}>>
  /\ alpha = [p \in Patients |-> 0]
  /\ CollapseIdle
  /\ SamplerIdle
  /\ IDIdle
  /\ selector = [kind |-> "DorfmanDecoder"]
  /\ ctor_args = NoSelector
  /\ pc = "constructed"
  /\ MIIdle

DecoderNext ==
  \/ ProduceSample
  \/ \E group \in SUBSET Patients, result \in BOOLEAN : RecordTest(group, result)

SpecDecoder == DecoderInit /\ [][DecoderNext]_vars

\* -------------------------------------------------------- claims, DorfmanDecoder
\* C9 (as claimed): after produce_sample the weights are [1] and the single
\* particle holds, for each patient, 1 if some past group that consists of
\* that patient alone tested positive, and 0 otherwise.
C9_SampleMarksPositiveSingletons ==
  pc = "sampled" =>
    /\ sampler_particle_weights = <<1>>
    /\ sampler_particles =
         <<[p \in Patients |->
              IF \E i \in 1 .. Len(past_groups) :
                   past_groups[i] = {p} /\ past_test_results[i]
                THEN 1 ELSE 0]>>

\* ============================================================ InformativeDorfman
\* InformativeDorfman(cut_off_high, cut_off_low, modified)
ConstructInformativeDorfman(cut_off_high, cut_off_low, modified) ==
  /\ pc = "new"
  /\ pc' = "constructed"
  /\ selector' = [kind |-> "InformativeDorfman",
                  modified |-> modified,
                  cut_off_high |-> cut_off_high,
                  cut_off_low |-> cut_off_low]
  /\ ctor_args' = [cut_off_high |-> cut_off_high,
                   cut_off_low |-> cut_off_low,
                   modified |-> modified]
  /\ UNCHANGED <<stateVars, collapseVars, miVars, samplerVars, idVars>>

\* np.sum(p_weights[:, np.newaxis] * particles, axis=0): for each patient
\* (position p + 1 holds patient p) the weight of the particles it is
\* infected in.
PosteriorMarginal ==
  Array([k \in 1 .. num_patients |->
           SeqSum(Array([i \in 1 .. Len(particles) |->
                           IF (k - 1) \in particles[i]
                             THEN particle_weights[i] ELSE 0],
                        Len(particles)))],
        num_patients)

\* onp.squeeze(marginal) drops every axis of length 1: the marginal of a
\* single patient becomes an array without axes, and indexing it with
\* not_cut_ids raises IndexError (on recent numpy, onp.where raises before).
SqueezedToScalar == num_patients = 1

\* `not_cut_ids`: the patients whose marginal lies strictly between the
\* cut-offs, ascending.
NotCutIds ==
  LET marginal == PosteriorMarginal
  IN  SelectSeq(Indices(Patients),
                LAMBDA p : /\ marginal[p + 1] < selector.cut_off_high
                           /\ marginal[p + 1] > selector.cut_off_low)

\* `marginal = marginal[not_cut_ids]`
CutMarginal ==
  LET marginal == PosteriorMarginal
      not_cut_ids == NotCutIds
  IN  Array([k \in 1 .. Len(not_cut_ids) |-> marginal[not_cut_ids[k] + 1]],
            Len(not_cut_ids))

\* `sorted_ids`, `sorted_marginal` (equal marginals stay in patient order,
\* as the sort of a short array leaves them).
SortedIds == LET marginal == CutMarginal IN ArgSort(marginal)
SortedMarginal ==
  LET marginal == CutMarginal IN Take(marginal, ArgSort(marginal))

\* utils.select_from_sizes(values, sizes): a value per size, the last value
\* of the table for a size beyond its length; a scalar is a table of one.
SelectFromSizes(values, sizes) ==
  Array([k \in 1 .. Len(sizes) |-> values[Min(sizes[k], Len(values))]],
        Len(sizes))

\* `index_max = onp.amin((n_r, state.max_group_size))`
IndexMax == Min(n_r, max_group_size)

\* onp.arange(1, index_max + 1)
GroupSizes == Array([k \in 1 .. IndexMax |-> k], IndexMax)

RECURSIVE Factorial(_)
Factorial(n) == IF n <= 1 THEN 1 ELSE n * Factorial(n - 1)

RECURSIVE SeqProduct(_)
SeqProduct(seq) ==
  IF seq = <<>> THEN 1 ELSE seq[1] * SeqProduct(Tail(seq))

\* onp.cumprod(1 - sorted_marginal[n_p:(n_p + index_max)]); entry k is in
\* units of 1 / One^k.
CumProdProb ==
  LET sorted_marginal == SortedMarginal
      healthy == Array([k \in 1 .. IndexMax |-> One - sorted_marginal[n_p + k]],
                       IndexMax)
  IN  Array([k \in 1 .. IndexMax |-> SeqProduct(SubSeq(healthy, 1, k))],
            IndexMax)

\* `exp_div_size`, every entry multiplied by index_max! * One^(index_max + 1)
\* so that it is an integer (exact arithmetic: the rounding of floating-point
\* numbers is not modelled):
\*   (1 + size * (sensitivity + (1 - sensitivity - specificity) * cum_prod_prob))
\*     / size, and 1 for size 1.
ExpDivSize ==
  LET sensitivity == SelectFromSizes(prior_sensitivity, GroupSizes)
      specificity == SelectFromSizes(prior_specificity, GroupSizes)
      cum_prod_prob == CumProdProb
      scale == Factorial(IndexMax)
  IN  Array([k \in 1 .. IndexMax |->
               IF k = 1
                 THEN scale * One ^ (IndexMax + 1)
                 ELSE (scale \div k) * One ^ (IndexMax + 1)
                      + scale * sensitivity[k] * One ^ IndexMax
                      + scale * (One - sensitivity[k] - specificity[k])
                          * cum_prod_prob[k] * One ^ (IndexMax - k)],
            IndexMax)

\* onp.argmin: the first position of the least entry (counted from 1 here,
\* from 0 in the source).
ArgMin(seq) ==
  CHOOSE k \in 1 .. Len(seq) :
    /\ \A j \in 1 .. Len(seq) : seq[k] <= seq[j]
    /\ \A j \in 1 .. k - 1 : seq[j] > seq[k]

\* `opt_size_group = onp.argmin(exp_div_size) + 1`
OptSizeGroup == LET exp_div_size == ExpDivSize IN ArgMin(exp_div_size)

\* `new_group`: True at not_cut_ids[sorted_ids[n_p:n_p + opt_size_group]]
NewGroup ==
  LET not_cut_ids == NotCutIds
      sorted_ids == SortedIds
      opt_size_group == OptSizeGroup
  IN  {not_cut_ids[sorted_ids[k]] : k \in n_p + 1 .. n_p + opt_size_group}

\* jax.random.permutation(rng, rows): the rows in any order.
RandomPermutations(rows) ==
  LET n == Len(rows)
      orders == {f \in [1 .. n -> 1 .. n] : \A i, j \in 1 .. n : f[i] = f[j] => i = j}
  IN  {Array([k \in 1 .. n |-> rows[f[k]]], n) : f \in orders}

\* rows[0:stop]
Head0(rows, stop) == SubSeq(rows, 1, Min(stop, Len(rows)))

\* __call__ up to the first test of the carving loop.
IDEnter ==
  /\ pc = "constructed"
  /\ selector.kind = "InformativeDorfman"
  /\ calls = 0
  /\ IF SqueezedToScalar
       THEN /\ pc' = "raised"
            /\ UNCHANGED <<all_cleared, calls, idVars>>
       ELSE IF Len(CutMarginal) = 0
              THEN /\ pc' = "returned"
                   /\ all_cleared' = TRUE
                   /\ calls' = calls + 1
                   /\ n_p' = 0
                   /\ n_r' = 0
                   /\ UNCHANGED all_new_groups
              ELSE /\ pc' = "carving"
                   /\ n_p' = 0
                   /\ n_r' = Len(CutMarginal)
                   /\ all_new_groups' = <<>>
                   /\ UNCHANGED <<all_cleared, calls>>
  /\ UNCHANGED <<configVars, historyVars, groups_to_test, api_log, selector,
                 ctor_args, collapseVars, miVars, samplerVars>>

\* One pass of the body of `while n_p < marginal.size`.
IDCarve ==
  /\ pc = "carving"
  /\ n_p < Len(CutMarginal)
  /\ all_new_groups' = Append(all_new_groups, NewGroup)
  /\ n_p' = n_p + OptSizeGroup
  /\ n_r' = n_r - OptSizeGroup
  /\ UNCHANGED <<stateVars, ctlVars, collapseVars, miVars, samplerVars>>

\* The loop has ended: the groups are permuted and queued.
IDQueue ==
  /\ pc = "carving"
  /\ ~(n_p < Len(CutMarginal))
  /\ pc' = "returned"
  /\ calls' = calls + 1
  /\ \E permuted \in RandomPermutations(all_new_groups) :
       /\ all_new_groups' = permuted
       /\ IF selector.modified
            THEN AddGroupsToTest(Head0(permuted, extra_tests_needed), TRUE)
            ELSE AddGroupsToTest(permuted, TRUE)
  /\ UNCHANGED <<configVars, historyVars, all_cleared, selector, ctor_args,
                 collapseVars, miVars, samplerVars, n_p, n_r>>

\* The cut-offs the model draws, as <<cut_off_low, cut_off_high>>: the
\* defaults 0 and 1, and both one step inside.
CutOffs == {<<0, One>>, <<1, One - 1>>}

\* The tables of sensitivities and specificities the model draws: a scalar,
\* and a table whose value drops from size 2 on.
TestTables == {<<One>>, <<One, One - 1>>}

IDInit ==
  /\ num_patients \in 1 .. IDPatients
  /\ max_group_size \in 1 .. MaxGroupSize
  /\ extra_tests_needed \in 0 .. MaxTests
  /\ prior_infection_rate = <<[num |-> 1, den |-> 1]>>
  /\ prior_sensitivity \in TestTables
  /\ prior_specificity = prior_sensitivity
  /\ particles \in [1 .. 2 -> SUBSET Patients]
  /\ \E w \in 1 .. One \div 2 : particle_weights = <<w, One - w>>
  /\ past_groups = <<>>
  /\ past_test_results = <<>>
  /\ to_clear_positives = {}
  /\ groups_to_test = <<>>
  /\ all_cleared = FALSE
  /\ api_log = <<>>
  /\ calls = 0
  /\ alpha = [p \in Patients |-> 0]
  /\ CollapseIdle
  /\ SamplerIdle
  /\ IDIdle
  /\ selector = NoSelector
  /\ ctor_args = NoSelector
  /\ pc = "new"
  /\ MIIdle

IDNext ==
  \/ \E cut_offs \in CutOffs, modified \in BOOLEAN :
       ConstructInformativeDorfman(cut_offs[2], cut_offs[1], modified)
  \/ IDEnter
  \/ IDCarve
  \/ IDQueue

SpecID == IDInit /\ [][IDNext]_vars

\* ---------------------------------------------------- claims, InformativeDorfman
\* The patients the cut-offs leave eligible.
Eligible ==
  LET marginal == PosteriorMarginal
  IN  {p \in Patients : /\ marginal[p + 1] > selector.cut_off_low
                        /\ marginal[p + 1] < selector.cut_off_high}

\* The carving loop has ended and its groups are not permuted yet.
Carved == pc = "carving" /\ n_p >= Len(CutMarginal)

\* C11 (as claimed): for every marginal vector the carving loop makes
\* progress at every pass, and once it is over, or the call has ended without
\* completing it, the carved groups are such that every eligible patient is
\* in exactly one group, no other patient is in a group, every group has
\* between 1 and max_group_size members, and every group is a run of
\* consecutive patients of the ascending order of marginals.
C11_CarvedGroupsPartitionEligible ==
  /\ pc = "carving" =>
       /\ Len(all_new_groups) <= n_p
       /\ n_p + n_r = Cardinality(Eligible)
       /\ n_r >= 0
  /\ (Carved \/ pc = "raised") =>
       LET eligible == Eligible
           marginal == PosteriorMarginal
       IN  /\ \A p \in eligible :
                Cardinality({k \in 1 .. Len(all_new_groups) :
                               p \in all_new_groups[k]}) = 1
           /\ \A k \in 1 .. Len(all_new_groups) :
                /\ all_new_groups[k] \subseteq eligible
                /\ Cardinality(all_new_groups[k]) >= 1
                /\ Cardinality(all_new_groups[k]) <= max_group_size
                /\ \A p, q \in all_new_groups[k] : \A r \in eligible :
                     (/\ marginal[p + 1] < marginal[r + 1]
                      /\ marginal[r + 1] < marginal[q + 1])
                     => r \in all_new_groups[k]

\* C12 (as claimed): a call has one of two effects. With no eligible patient
\* it sets all_cleared and queues nothing. Otherwise it leaves all_cleared as
\* it was (False) and calls add_groups_to_test exactly once, with
\* results_need_clearing = True: the batch is the permuted carved groups, all
\* of them when modified is False and the first min(G, extra_tests_needed) of
\* them when it is True, so never more than extra_tests_needed.
C12_CallClearsOrQueuesOnce ==
  pc \in {"returned", "raised"} =>
       IF Eligible = {}
         THEN /\ all_cleared
              /\ api_log = <<>>
              /\ groups_to_test = <<>>
         ELSE LET G == Len(all_new_groups)
                  queued == IF selector.modified
                              THEN IF G <= extra_tests_needed
                                     THEN G ELSE extra_tests_needed
                              ELSE G
              IN  /\ ~all_cleared
                  /\ Len(api_log) = 1
                  /\ api_log[1].op = "add_groups_to_test"
                  /\ api_log[1].results_need_clearing
                  /\ Len(api_log[1].groups) = queued
                  /\ \A k \in 1 .. queued :
                       api_log[1].groups[k] = all_new_groups[k]
                  /\ selector.modified =>
                       Len(api_log[1].groups) <= extra_tests_needed
                  /\ Len(groups_to_test) = queued
                  /\ \A k \in 1 .. queued :
                       /\ groups_to_test[k].group = all_new_groups[k]
                       /\ groups_to_test[k].results_need_clearing
                  /\ \A p \in Eligible :
                       Cardinality({k \in 1 .. G : p \in all_new_groups[k]}) = 1
====
